---- MODULE Spec2Model ----
(***************************************************************************)
(* Model of plugins/colorama.py: the Colorama dialog (class Colorama, its  *)
(* LabeledSlider widgets) and the gradient command color_grad with its     *)
(* helper make_gradient.                                                   *)
(*                                                                         *)
(* Numbers.  Python floats are modelled as exact rationals <<n, d>> with   *)
(* d > 0, kept in lowest terms; int() is truncation, "%4.4g" is rounding   *)
(* to four significant digits.  Rounding errors of the last binary digit   *)
(* of a double are not modelled.                                           *)
(*                                                                         *)
(* Host.  The calls the plugin makes on pymol.cmd are appended to          *)
(* hostCalls; hostCalls holds the calls of the handler that ran last.      *)
(***************************************************************************)
EXTENDS Integers, Sequences, FiniteSets, TLC

(***************************************************************************)
(* Bounds of the model.                                                    *)
(***************************************************************************)
MaxResi == 4        \* residue numbers 0..MaxResi are passed as minimum / maximum
BigResi == 12344    \* first of three residue numbers with five digits
MaxAtoms == 1       \* the selection of a color_grad call holds 0..MaxAtoms atoms
HsvDen == 2         \* HSV arguments of color_grad are k / HsvDen, k in 0..HsvDen
MaxEvents == 3      \* user events handled by the dialog in one session
MaxHsvDen == 30     \* Set Gradient is followed for endpoint colours whose HSV
                    \* coordinates have denominators up to MaxHsvDen
MaxGradResi == 2    \* residue numbers 1..MaxGradResi of the object the dialog colours

(***************************************************************************)
(* Rational arithmetic (Python float arithmetic without rounding error).   *)
(***************************************************************************)
Abs(x) == IF x < 0 THEN -x ELSE x

RECURSIVE Gcd(_, _)
Gcd(a, b) == IF b = 0 THEN a ELSE Gcd(b, a % b)

Rat(n, d) ==
    LET s == IF d < 0 THEN -1 ELSE 1
        g == Gcd(Abs(n), Abs(d))
    IN  <<(s * n) \div g, (s * d) \div g>>

RInt(k) == <<k, 1>>
\* operands are in lowest terms; common factors are cancelled before multiplying
RAdd(x, y) ==
    LET g == Gcd(x[2], y[2])
    IN  Rat(x[1] * (y[2] \div g) + y[1] * (x[2] \div g), (x[2] \div g) * y[2])
RNeg(x) == <<-x[1], x[2]>>
RSub(x, y) == RAdd(x, RNeg(y))
RMul(x, y) ==
    LET g1 == Gcd(Abs(x[1]), y[2])
        g2 == Gcd(Abs(y[1]), x[2])
    IN  Rat((x[1] \div g1) * (y[1] \div g2), (x[2] \div g2) * (y[2] \div g1))
RDiv(x, y) == RMul(x, Rat(y[2], y[1]))
RLess(x, y) == x[1] * y[2] < y[1] * x[2]
RLeq(x, y) == x[1] * y[2] <= y[1] * x[2]
RFloor(x) == x[1] \div x[2]
\* Python int(x): truncation towards zero
PyInt(x) == IF x[1] >= 0 THEN x[1] \div x[2] ELSE -((-x[1]) \div x[2])
\* Python x % 1.0 for a rational
RMod1(x) == RSub(x, RInt(RFloor(x)))

RMax3(a, b, c) ==
    LET ab == IF RLess(a, b) THEN b ELSE a
    IN  IF RLess(ab, c) THEN c ELSE ab
RMin3(a, b, c) ==
    LET ab == IF RLess(b, a) THEN b ELSE a
    IN  IF RLess(c, ab) THEN c ELSE ab

(***************************************************************************)
(* colorsys.rgb_to_hsv and colorsys.hsv_to_rgb of the Python library, on   *)
(* triples of rationals.                                                   *)
(***************************************************************************)
rgb_to_hsv(r, g, b) ==
    LET maxc == RMax3(r, g, b)
        minc == RMin3(r, g, b)
        rangec == RSub(maxc, minc)
    IN  IF minc = maxc THEN <<RInt(0), RInt(0), maxc>>
        ELSE LET s == RDiv(rangec, maxc)
                 rc == RDiv(RSub(maxc, r), rangec)
                 gc == RDiv(RSub(maxc, g), rangec)
                 bc == RDiv(RSub(maxc, b), rangec)
                 h0 == IF r = maxc THEN RSub(bc, gc)
                       ELSE IF g = maxc THEN RSub(RAdd(RInt(2), rc), bc)
                       ELSE RSub(RAdd(RInt(4), gc), rc)
             IN  <<RMod1(RDiv(h0, RInt(6))), s, maxc>>

hsv_to_rgb(h, s, v) ==
    IF s = RInt(0) THEN <<v, v, v>>
    ELSE LET h6 == RMul(h, RInt(6))
             i0 == PyInt(h6)
             f == RSub(h6, RInt(i0))
             p == RMul(v, RSub(RInt(1), s))
             q == RMul(v, RSub(RInt(1), RMul(s, f)))
             t == RMul(v, RSub(RInt(1), RMul(s, RSub(RInt(1), f))))
             i == i0 % 6
         IN  CASE i = 0 -> <<v, t, p>>
               [] i = 1 -> <<q, v, p>>
               [] i = 2 -> <<p, v, t>>
               [] i = 3 -> <<p, q, v>>
               [] i = 4 -> <<t, p, v>>
               [] i = 5 -> <<v, p, q>>

(***************************************************************************)
(* "%4.4g" % x: the number the formatted text denotes, x rounded to four   *)
(* significant digits (ties to even).                                      *)
(***************************************************************************)
RECURSIVE Pow10(_)
Pow10(k) == IF k = 0 THEN 1 ELSE 10 * Pow10(k - 1)

RoundHalfEven(a, d) ==
    LET q == a \div d
        r2 == 2 * (a % d)
    IN  IF r2 < d THEN q
        ELSE IF r2 > d THEN q + 1
        ELSE IF q % 2 = 0 THEN q ELSE q + 1

RECURSIVE Sig4(_, _, _)
Sig4(a, d, e) ==
    IF a < 1000 * d THEN Sig4(10 * a, d, e - 1)
    ELSE IF a >= 10000 * d THEN Sig4(a, 10 * d, e + 1)
    ELSE <<RoundHalfEven(a, d), e>>

Fmt4g(x) ==
    IF x[1] = 0 THEN RInt(0)
    ELSE LET me == Sig4(Abs(x[1]), x[2], 0)
             sg == IF x[1] < 0 THEN -1 ELSE 1
         IN  IF me[2] >= 0 THEN Rat(sg * me[1] * Pow10(me[2]), 1)
             ELSE Rat(sg * me[1], Pow10(-me[2]))

(***************************************************************************)
(* The gradient command.                                                   *)
(***************************************************************************)
\* str.lower() on the mode and gradient names the model passes
Lower(s) ==
    CASE s = "HIST" -> "hist"
      [] s = "BGR" -> "bgr"
      [] OTHER -> s

KnownModes == {"hist", "ramp"}

AcceptedGradients ==
    {"bgr", "rgb", "rainbow", "reverserainbow", "bwr", "rwb",
     "bmr", "rmb", "rw", "wr", "gw", "wg", "bw", "wb", "gy", "yg",
     "gray", "grey", "reversegray", "reversegrey"}

\* Interp dividing by nbins instead of nbins - 1
Interp_ByNbins(xs, xe, j, nbins) ==
    RSub(xs, RDiv(RMul(RSub(xs, xe), RInt(j)), RInt(nbins)))

\* hs - (hs - he) * float(j) / (nbins - 1)
Interp(xs, xe, j, nbins) ==
    RSub(xs, RDiv(RMul(RSub(xs, xe), RInt(j)), RInt(nbins - 1)))

\* the colour make_gradient computes for bin j
BinColour(j, nbins, hs, he, ss, se, vs, ve) ==
    hsv_to_rgb(Interp(hs, he, j, nbins),
               Interp(ss, se, j, nbins),
               Interp(vs, ve, j, nbins))

\* make_gradient: the names it returns, the cmd.set_color calls it makes, and
\* the exception it raises, if any
make_gradient(gradient, nbins, hs, he, ss, se, vs, ve, colorname) ==
    IF gradient = "bgr" \/ gradient = "rainbow"
    THEN IF nbins = 1
         THEN [raised |-> "ZeroDivisionError", coldesc |-> <<>>, calls |-> <<>>]
         ELSE [raised |-> "",
               coldesc |-> [k \in 1..nbins |-> colorname \o ToString(k - 1)],
               calls |-> [k \in 1..nbins |->
                            [op |-> "set_color",
                             name |-> colorname \o ToString(k - 1),
                             rgb |-> BinColour(k - 1, nbins, hs, he, ss, se, vs, ve)]]]
    ELSE [raised |-> "UnboundLocalError", coldesc |-> <<>>, calls |-> <<>>]

\* the text of a selection predicate: "<obj> and <item> = <%4.4g of value>"
Predicate(obj, item, value) ==
    [obj |-> obj, item |-> item, value |-> Fmt4g(value)]

\* the list sel built in hist mode
HistSel(selection, dummy, item, min_b, bin_width, nbins) ==
    <<Predicate(selection, item, RAdd(RInt(min_b), bin_width))>>
    \o [k \in 1..(nbins - 1) |->
          Predicate(dummy, item, RAdd(RInt(min_b), RMul(RInt(k), bin_width)))]

\* ColouringLoop starting at bin 1: for j in range(1, nbins)
ColouringLoop_FromOne(colours, sel, nbins) ==
    LET lim == IF Len(sel) < Len(colours) THEN Len(sel) ELSE Len(colours)
        done == IF nbins < lim THEN nbins ELSE lim
    IN  [raised |-> IF nbins > lim THEN "IndexError" ELSE "",
         calls |-> [k \in 1..(done - 1) |->
                      [op |-> "color", name |-> colours[k + 1], sel |-> sel[k + 1]]]]

\* the colouring loop: cmd.color(colours[j], sel[j]) for j in range(nbins);
\* indexing past the end of sel or colours raises IndexError
ColouringLoop(colours, sel, nbins) ==
    LET lim == IF Len(sel) < Len(colours) THEN Len(sel) ELSE Len(colours)
        done == IF nbins < lim THEN nbins ELSE lim
    IN  [raised |-> IF nbins > lim THEN "IndexError" ELSE "",
         calls |-> [k \in 1..done |->
                      [op |-> "color", name |-> colours[k], sel |-> sel[k]]]]

Finished(nb, warned, printed, raised, sel, colours, calls, made) ==
    [nbins |-> nb, warned |-> warned, printed |-> printed, raised |-> raised,
     sel |-> sel, colours |-> colours, calls |-> calls, made |-> made]

\* the checks of color_grad in the order the code makes them: the message it
\* prints when it gives up, "" when it goes on to colour
Report(a, mode, gradient, natoms) ==
    IF mode \notin KnownModes THEN "unknown mode"
    ELSE IF a.selection = "" THEN "usage"
    ELSE IF gradient \notin AcceptedGradients THEN "unknown gradient"
    ELSE IF natoms = 0 THEN "no atoms"
    ELSE IF a.item \notin {"b", "q"} THEN "bad item"
    ELSE ""

\* nbins after line 596 and the sanity check: the caller's nbins is overwritten
EffectiveNbins(a) ==
    LET nbins == a.maximum - a.minimum + 2
    IN  IF nbins = 1 THEN 11 ELSE nbins

\* color_grad from cmd.load_model on: predicates, make_gradient, colouring loop
Colouring(a, mode, gradient, nbins, warned) ==
    LET dummy == "dummy-" \o a.selection
        colorname == "color_" \o a.selection
        load == <<[op |-> "load_model", name |-> dummy]>>
        min_b == a.minimum - 1
        max_b == a.maximum + 1
    IN  IF mode = "hist" /\ nbins = 0
        THEN Finished(nbins, warned, "", "ZeroDivisionError", <<>>, <<>>, load, FALSE)
        ELSE
          LET sel == IF mode = "hist"
                     THEN HistSel(a.selection, dummy, a.item, min_b,
                                  RDiv(RInt(max_b - min_b), RInt(nbins)), nbins)
                     ELSE <<>>
              mg == make_gradient(gradient, nbins, a.hs, a.he, a.ss, a.se,
                                  a.vs, a.ve, colorname)
              loop == ColouringLoop(mg.coldesc, sel, nbins)
          IN  IF mg.raised # ""
              THEN Finished(nbins, warned, "", mg.raised, sel, <<>>,
                            load \o mg.calls, FALSE)
              ELSE Finished(nbins, warned, "", loop.raised, sel, mg.coldesc,
                            load \o mg.calls \o loop.calls, TRUE)

\* color_grad going on to colour after "Sorry, no atoms selected"
color_grad_NoAtomsGoesOn(a, natoms) ==
    LET gradient == Lower(a.gradient)
        mode == Lower(a.mode)
        warned == (a.maximum - a.minimum + 2 = 1)
        nbins == EffectiveNbins(a)
        msg == Report(a, mode, gradient, natoms)
    IN  IF msg = "no atoms"
        THEN [Colouring(a, mode, gradient, nbins, warned) EXCEPT !.printed = msg]
        ELSE IF msg # ""
        THEN Finished(nbins, warned, msg, "", <<>>, <<>>, <<>>, FALSE)
        ELSE Colouring(a, mode, gradient, nbins, warned)

\* color_grad(selection, item, mode, gradient, nbins, minimum, maximum,
\*            hs, he, ss, se, vs, ve) on a selection of natoms atoms
color_grad(a, natoms) ==
    LET gradient == Lower(a.gradient)
        mode == Lower(a.mode)
        warned == (a.maximum - a.minimum + 2 = 1)
        nbins == EffectiveNbins(a)
        msg == Report(a, mode, gradient, natoms)
    IN  IF msg # ""
        THEN Finished(nbins, warned, msg, "", <<>>, <<>>, <<>>, FALSE)
        ELSE Colouring(a, mode, gradient, nbins, warned)

(***************************************************************************)
(* State.                                                                  *)
(***************************************************************************)
VARIABLES
    selection,      \* Colorama.selection
    monograd,       \* Colorama.monograd
    colorsystem,    \* Colorama.colorsystem
    farbe12,        \* Colorama.farbe12
    farbe1,         \* Colorama.farbe1
    farbe2,         \* Colorama.farbe2
    scale,          \* scale_red, scale_green, scale_blue: the three LabeledSliders
    colorfield1,    \* colour shown by colorfield1
    colorfield2,    \* colour shown by colorfield2
    entry,          \* text of selection_entry when Set was last clicked
    colorlist,      \* stored.colorlist as the last setselection left it
    hostCalls,      \* calls on pymol.cmd made by the handler that ran last
    handler,        \* the handler that ran last
    events,         \* number of user events the dialog has handled
    args,           \* arguments of the last color_grad call
    run,            \* locals of the last color_grad call when it ended
    earlier         \* host calls of each color_grad command typed before the last

dvars == <<selection, monograd, colorsystem, farbe12, farbe1, farbe2, scale,
           colorfield1, colorfield2, entry, colorlist>>
gvars == <<args, run, earlier>>
vars == <<selection, monograd, colorsystem, farbe12, farbe1, farbe2, scale,
          colorfield1, colorfield2, entry, colorlist, hostCalls, handler,
          events, args, run, earlier>>

(***************************************************************************)
(* The dialog.  A handler is a function on the record of the dialog's      *)
(* fields; `calls' collects the host calls the handler makes.  A slider    *)
(* whose value changes emits valueChanged, which runs setzeFarbe before    *)
(* the statement that changed the slider returns.                          *)
(***************************************************************************)
Dialog ==
    [selection |-> selection, monograd |-> monograd, colorsystem |-> colorsystem,
     farbe12 |-> farbe12, farbe1 |-> farbe1, farbe2 |-> farbe2, scale |-> scale,
     colorfield1 |-> colorfield1, colorfield2 |-> colorfield2,
     colorlist |-> colorlist, calls |-> <<>>]

\* LabeledSlider.__init__(label, 0, 255)
NewSlider == [value |-> 0, maximum |-> 255, is_float |-> FALSE, resolution |-> RInt(1)]

\* LabeledSlider.get_value
get_value(sl) ==
    IF sl.is_float THEN RMul(RInt(sl.value), sl.resolution) ELSE RInt(sl.value)

\* RGBToHTMLColor followed by ColorField.set_color: the colour #rrggbb as a
\* number; -1 when a channel does not fit two hex digits
RGBToHTMLColor(rgb) ==
    IF \A k \in 1..3 : rgb[k] >= 0 /\ rgb[k] <= 255
    THEN rgb[1] * 65536 + rgb[2] * 256 + rgb[3]
    ELSE -1

\* Call3 defining the colour before the delete
Call3_DefineFirst(name, rgb, sel) ==
    <<[op |-> "set_color", name |-> name, rgb |-> rgb],
      [op |-> "delete", name |-> name],
      [op |-> "color", name |-> name, sel |-> [obj |-> sel]]>>

\* the three host calls with which setzeFarbe recolours the selection
Call3(name, rgb, sel) ==
    <<[op |-> "delete", name |-> name],
      [op |-> "set_color", name |-> name, rgb |-> rgb],
      [op |-> "color", name |-> name, sel |-> [obj |-> sel]]>>

\* cmd.set_color appending an entry also for a name the table already holds
set_color_Appends(table, name, rgb) == Append(table, <<name, rgb>>)

\* cmd.set_color(name, rgb) on the host's table of named colours, a sequence
\* of <<name, rgb>> in the order of first definition: a name already in the
\* table gets the new triple
set_color(table, name, rgb) ==
    IF \E i \in 1..Len(table) : table[i][1] = name
    THEN [i \in 1..Len(table) |->
             IF table[i][1] = name THEN <<name, rgb>> ELSE table[i]]
    ELSE Append(table, <<name, rgb>>)

\* the host's table of named colours after the calls, starting from table
RECURSIVE ColourTable(_, _)
ColourTable(table, calls) ==
    IF calls = <<>> THEN table
    ELSE IF Head(calls).op = "set_color"
    THEN ColourTable(set_color(table, Head(calls).name, Head(calls).rgb), Tail(calls))
    ELSE ColourTable(table, Tail(calls))

\* The handlers are applied to values: The(S) is the element of the
\* one-element set S, and The({F(x) : x \in {e}}) is F applied to the value
\* of e, computed once.
The(S) == CHOOSE r \in S : TRUE

\* the (r, g, b) setzeFarbe derives from the sliders, and the float triple
\* it hands to cmd.set_color
SliderRGB(d) ==
    IF d.colorsystem = "rgb"
    THEN LET r == PyInt(get_value(d.scale[1]))
             g == PyInt(get_value(d.scale[2]))
             b == PyInt(get_value(d.scale[3]))
         IN  [rgb |-> <<r, g, b>>,
              float |-> <<Rat(r, 255), Rat(g, 255), Rat(b, 255)>>]
    ELSE The({[rgb |-> <<PyInt(RMul(RInt(255), f[1])),
                         PyInt(RMul(RInt(255), f[2])),
                         PyInt(RMul(RInt(255), f[3]))>>,
               float |-> f] :
              f \in {hsv_to_rgb(get_value(d.scale[1]), get_value(d.scale[2]),
                                get_value(d.scale[3]))}})

\* setzeFarbe without the test "self.selection != ''"
setzeFarbe_NoSelectionTest(d) ==
    IF d.monograd = "mono"
    THEN The({[d EXCEPT !.colorfield1 = hexcolor, !.colorfield2 = hexcolor,
                        !.calls = @ \o Call3(d.selection \o "_color", c.float,
                                             d.selection)] :
              <<c, hexcolor>> \in {<<x, RGBToHTMLColor(x.rgb)>> :
                                   x \in {SliderRGB(d)}}})
    ELSE The({IF d.farbe12 = "farbe1"
              THEN [d EXCEPT !.colorfield1 = hexcolor, !.farbe1 = c.rgb]
              ELSE [d EXCEPT !.colorfield2 = hexcolor, !.farbe2 = c.rgb] :
              <<c, hexcolor>> \in {<<x, RGBToHTMLColor(x.rgb)>> :
                                   x \in {SliderRGB(d)}}})

\* Colorama.setzeFarbe
setzeFarbe_(d) ==
    IF d.selection # "" /\ d.monograd = "mono"
    THEN The({[d EXCEPT !.colorfield1 = hexcolor, !.colorfield2 = hexcolor,
                        !.calls = @ \o Call3(d.selection \o "_color", c.float,
                                             d.selection)] :
              <<c, hexcolor>> \in {<<x, RGBToHTMLColor(x.rgb)>> :
                                   x \in {SliderRGB(d)}}})
    ELSE IF d.selection # "" /\ d.monograd = "grad"
    THEN The({IF d.farbe12 = "farbe1"
              THEN [d EXCEPT !.colorfield1 = hexcolor, !.farbe1 = c.rgb]
              ELSE IF d.farbe12 = "farbe2"
              THEN [d EXCEPT !.colorfield2 = hexcolor, !.farbe2 = c.rgb]
              ELSE d :
              <<c, hexcolor>> \in {<<x, RGBToHTMLColor(x.rgb)>> :
                                   x \in {SliderRGB(d)}}})
    ELSE d

setzeFarbe(d) == The({setzeFarbe_(x) : x \in {d}})

\* QSlider.setValue(v) of slider i: the value is bounded by the range, and
\* a change is signalled to _on_value_changed and from there to setzeFarbe
SliderSetValue_(d, i, v) ==
    LET b == IF v < 0 THEN 0
             ELSE IF v > d.scale[i].maximum THEN d.scale[i].maximum ELSE v
    IN  IF b = d.scale[i].value THEN d
        ELSE setzeFarbe([d EXCEPT !.scale[i].value = b])

SliderSetValue(d, i, v) == The({SliderSetValue_(x, i, y) : x \in {d}, y \in {v}})

\* LabeledSlider.set_value on slider i
set_value_(d, i, x) ==
    IF d.scale[i].is_float
    THEN SliderSetValue(d, i, PyInt(RDiv(x, d.scale[i].resolution)))
    ELSE SliderSetValue(d, i, PyInt(x))

set_value(d, i, x) == The({set_value_(y, i, z) : y \in {d}, z \in {x}})

\* LabeledSlider.set_range(0, max_val, resolution) on slider i; setMaximum
\* bounds the current value by the new range
set_range_(d, i, max_val, resolution) ==
    LET fl == RLess(resolution, RInt(1))
        mx == IF fl THEN PyInt(RDiv(RInt(max_val), resolution)) ELSE max_val
    IN  The({SliderSetValue(d1, i, d1.scale[i].value) :
             d1 \in {[d EXCEPT !.scale[i].resolution = resolution,
                               !.scale[i].is_float = fl,
                               !.scale[i].maximum = mx]}})

set_range(d, i, max_val, resolution) ==
    The({set_range_(x, i, max_val, resolution) : x \in {d}})

set_range3(d, max_val, resolution) ==
    set_range(set_range(set_range(d, 1, max_val, resolution),
                        2, max_val, resolution),
              3, max_val, resolution)

set_value3_(d, x) ==
    set_value(set_value(set_value(d, 1, x[1]), 2, x[2]), 3, x[3])

set_value3(d, x) == The({set_value3_(d, y) : y \in {x}})

\* Colorama.Scalergb
Scalergb(d) ==
    IF d.colorsystem = "hsv"
    THEN The({[d1 EXCEPT !.colorsystem = "rgb"] :
              d1 \in {set_value3(set_range3(d, 255, RInt(1)),
                                 <<RMul(RInt(255), rgbcolor[1]),
                                   RMul(RInt(255), rgbcolor[2]),
                                   RMul(RInt(255), rgbcolor[3])>>) :
                      rgbcolor \in {hsv_to_rgb(get_value(d.scale[1]),
                                               get_value(d.scale[2]),
                                               get_value(d.scale[3]))}}})
    ELSE d

\* Colorama.Scalehsv
Scalehsv(d) ==
    IF d.colorsystem = "rgb"
    THEN The({[d1 EXCEPT !.colorsystem = "hsv"] :
              d1 \in {set_value3(set_range3(d, 1, Rat(1, 100)), hsvcolor) :
                      hsvcolor \in {rgb_to_hsv(
                                        RDiv(get_value(d.scale[1]), RInt(255)),
                                        RDiv(get_value(d.scale[2]), RInt(255)),
                                        RDiv(get_value(d.scale[3]), RInt(255)))}}})
    ELSE d

\* Colorama.Mono and Colorama.Grad
Mono(d) == [d EXCEPT !.monograd = "mono"]
Grad(d) == [d EXCEPT !.monograd = "grad"]

\* Colorama.Farbe1 and Colorama.Farbe2, slot = "farbe1" or "farbe2"; d0 is the
\* dialog after "self.farbe12 = slot"
Farbe_(d0, slot) ==
        IF d0.monograd = "grad"
        THEN IF d0.colorsystem = "rgb"
             THEN The({set_value(d2, 3, RInt(d2[slot][3])) :
                       d2 \in {set_value(d1, 2, RInt(d1[slot][2])) :
                               d1 \in {set_value(d0, 1, RInt(d0[slot][1]))}}})
             ELSE IF d0.colorsystem = "hsv"
             THEN set_value3(d0, rgb_to_hsv(Rat(d0[slot][1], 255),
                                            Rat(d0[slot][2], 255),
                                            Rat(d0[slot][3], 255)))
             ELSE d0
        ELSE d0

Farbe(d, slot) == The({Farbe_(d0, slot) : d0 \in {[d EXCEPT !.farbe12 = slot]}})

(***************************************************************************)
(* The host as the dialog sees it: colour indices and their RGB triples.   *)
(* cmd.get_color_tuple raises for an index that is not a colour.           *)
(***************************************************************************)
White == <<RInt(1), RInt(1), RInt(1)>>
Red == <<RInt(1), RInt(0), RInt(0)>>
Blue == <<RInt(0), RInt(0), RInt(1)>>
Orange == <<RInt(1), Rat(1, 2), RInt(0)>>
Gray == <<Rat(1, 2), Rat(1, 2), Rat(1, 2)>>

\* 0 white, 2 blue, 4 red, 13 orange; 7 a user-defined colour with the RGB of red
HostColour == (0 :> White) @@ (2 :> Blue) @@ (4 :> Red) @@ (7 :> Red) @@ (13 :> Orange)

\* str.strip() on the texts the model types into selection_entry
Strip(s) ==
    CASE s = "  " -> ""
      [] s = " objA " -> "objA"
      [] OTHER -> s

Times255(c) == <<RMul(c[1], RInt(255)), RMul(c[2], RInt(255)), RMul(c[3], RInt(255))>>
IntTriple(c) == <<PyInt(c[1]), PyInt(c[2]), PyInt(c[3])>>

\* SameColour comparing the red channel only
SameColour_RedOnly(nterm, cterm) == nterm[1] = cterm[1]

\* the test "initialcolornterm == initialcolorcterm" of setselection
SameColour(nterm, cterm) == nterm = cterm

\* Colorama.setselection; text is the entry text, iter the list cmd.iterate
\* appended to stored.colorlist (empty when it raised or matched no CA atom),
\* obj the answer of cmd.get_object_color_index (<<>> when it raised)
setselection_(d, entry_text, list) ==
    LET found == list[1] \in DOMAIN HostColour
                 /\ list[Len(list)] \in DOMAIN HostColour
        initialcolornterm == IF found THEN HostColour[list[1]] ELSE Gray
        initialcolorcterm == IF found THEN HostColour[list[Len(list)]] ELSE Gray
        d1 == [d EXCEPT !.selection = entry_text,
                        !.colorlist = list,
                        !.farbe1 = IntTriple(Times255(initialcolornterm)),
                        !.farbe2 = IntTriple(Times255(initialcolorcterm))]
        Fields(d2) ==
            [d2 EXCEPT !.colorfield1 = RGBToHTMLColor(d2.farbe1),
                       !.colorfield2 = RGBToHTMLColor(d2.farbe2)]
        Sliders(d4) ==
            IF d4.colorsystem = "rgb"
            THEN set_value3(d4, Times255(initialcolornterm))
            ELSE IF d4.colorsystem = "hsv"
            THEN set_value3(d4, rgb_to_hsv(initialcolornterm[1],
                                           initialcolornterm[2],
                                           initialcolornterm[3]))
            ELSE d4
    IN  The({Sliders(d4) :
             d4 \in {Farbe(d3, "farbe1") :
                     d3 \in {Fields(d2) :
                             d2 \in {IF SameColour(initialcolornterm,
                                                   initialcolorcterm)
                                     THEN Mono(d1) ELSE Grad(d1)}}}})

setselection(d, text, iter, obj) ==
    IF Strip(text) = "" THEN d
    ELSE The({setselection_(d, Strip(text), list) :
              list \in {IF Len(iter) = 0
                        THEN IF Len(obj) = 0 THEN <<0, 0>> ELSE <<obj[1], obj[1]>>
                        ELSE iter}})

\* the arguments setgradient passes to color_grad for a residue list
GradientArgs(d, residuelist) ==
    LET lo == CHOOSE x \in {residuelist[k] : k \in 1..Len(residuelist)} :
                 \A k \in 1..Len(residuelist) : x <= residuelist[k]
        hi == CHOOSE x \in {residuelist[k] : k \in 1..Len(residuelist)} :
                 \A k \in 1..Len(residuelist) : x >= residuelist[k]
        hsvcolorstart == rgb_to_hsv(Rat(d.farbe1[1], 255), Rat(d.farbe1[2], 255),
                                    Rat(d.farbe1[3], 255))
        hsvcolorend == rgb_to_hsv(Rat(d.farbe2[1], 255), Rat(d.farbe2[2], 255),
                                  Rat(d.farbe2[3], 255))
    IN  [selection |-> d.selection, item |-> "b", mode |-> "hist",
         gradient |-> "bgr", nbins |-> 11, minimum |-> lo, maximum |-> hi,
         hs |-> hsvcolorstart[1], he |-> hsvcolorend[1],
         ss |-> hsvcolorstart[2], se |-> hsvcolorend[2],
         vs |-> hsvcolorstart[3], ve |-> hsvcolorend[3]]

(***************************************************************************)
(* Initial state: Colorama.__init__, no color_grad call yet.               *)
(***************************************************************************)
\* the defaults of color_grad's signature
DefaultArgs ==
    [selection |-> "", item |-> "b", mode |-> "hist", gradient |-> "bgr",
     nbins |-> 11, minimum |-> 1, maximum |-> 1,
     hs |-> RInt(1), he |-> RInt(1), ss |-> RInt(1), se |-> RInt(1),
     vs |-> RInt(1), ve |-> RInt(1)]

NoRun ==
    [called |-> FALSE, natoms |-> 0, nbins |-> 0, warned |-> FALSE, printed |-> "",
     raised |-> "", sel |-> <<>>, colours |-> <<>>, made |-> FALSE]

\* the locals of an ended color_grad call
Locals(r, natoms) ==
    [called |-> TRUE, natoms |-> natoms, nbins |-> r.nbins, warned |-> r.warned,
     printed |-> r.printed, raised |-> r.raised, sel |-> r.sel,
     colours |-> r.colours, made |-> r.made]

Init ==
    /\ selection = ""
    /\ monograd = "mono"
    /\ colorsystem = "rgb"
    /\ farbe12 = "farbe1"
    /\ farbe1 = <<128, 128, 128>>
    /\ farbe2 = <<128, 128, 128>>
    /\ scale = <<NewSlider, NewSlider, NewSlider>>
    /\ colorfield1 = RGBToHTMLColor(<<128, 128, 128>>)
    /\ colorfield2 = RGBToHTMLColor(<<128, 128, 128>>)
    /\ entry = ""
    /\ colorlist = <<>>
    /\ hostCalls = <<>>
    /\ handler = "__init__"
    /\ events = 0
    /\ args = DefaultArgs
    /\ run = NoRun
    /\ earlier = <<>>

(***************************************************************************)
(* Inputs.                                                                 *)
(***************************************************************************)
RgbStops == {102, 255}          \* positions the user drags a 0..255 slider to
HsvStops == {50, 100}       \* positions the user drags a 0..100 slider to
EntryTexts == {"", "  ", " objA "}
IterIds == {4, 7, 13}           \* colour indices cmd.iterate reports
UnknownId == 99                 \* an index for which cmd.get_color_tuple raises
MaxCA == 3                      \* CA atoms of the object typed into the entry

SeqsUpTo(S, n) == UNION {[1..k -> S] : k \in 0..n}

\* the colour indices cmd.iterate reports for the CA atoms of an object: any
\* index at the two ends, orange on the atoms between them; an object whose
\* last atom has an index the host does not know; an object from blue to red
ColourLists ==
    {iter \in SeqsUpTo(IterIds, MaxCA) : \A k \in 2..(Len(iter) - 1) : iter[k] = 13}
      \cup {<<4, UnknownId>>, <<2, 4>>}

Resis == (0..MaxResi) \cup (BigResi..(BigResi + 2))
HsvGrid == {Rat(k, HsvDen) : k \in 0..HsvDen}
ValueStops == {Rat(1, 2), RInt(1)}  \* vs= and ve= of those calls
GradMinima == {0, 1}            \* minimum= of the calls that pass HSV limits

(***************************************************************************)
(* Actions of the dialog: one per signal the user can raise.               *)
(***************************************************************************)
Commit(d, name) ==
    /\ selection' = d.selection
    /\ monograd' = d.monograd
    /\ colorsystem' = d.colorsystem
    /\ farbe12' = d.farbe12
    /\ farbe1' = d.farbe1
    /\ farbe2' = d.farbe2
    /\ scale' = d.scale
    /\ colorfield1' = d.colorfield1
    /\ colorfield2' = d.colorfield2
    /\ colorlist' = d.colorlist
    /\ hostCalls' = d.calls
    /\ handler' = name
    /\ events' = events + 1
    /\ UNCHANGED earlier

NoGradient == args' = DefaultArgs /\ run' = NoRun

Ready == events < MaxEvents

\* rgb_button.clicked
ClickRGB ==
    /\ Ready
    /\ \E d \in {Scalergb(Dialog)} : Commit(d, "Scalergb")
    /\ NoGradient
    /\ UNCHANGED entry

\* hsv_button.clicked
ClickHSV ==
    /\ Ready
    /\ \E d \in {Scalehsv(Dialog)} : Commit(d, "Scalehsv")
    /\ NoGradient
    /\ UNCHANGED entry

\* mono_button.clicked
ClickMono ==
    /\ Ready
    /\ \E d \in {Mono(Dialog)} : Commit(d, "Mono")
    /\ NoGradient
    /\ UNCHANGED entry

\* grad_button.clicked
ClickGradient ==
    /\ Ready
    /\ \E d \in {Grad(Dialog)} : Commit(d, "Grad")
    /\ NoGradient
    /\ UNCHANGED entry

\* farbe1_button.clicked
ClickColor1 ==
    /\ Ready
    /\ \E d \in {Farbe(Dialog, "farbe1")} : Commit(d, "Farbe1")
    /\ NoGradient
    /\ UNCHANGED entry

\* farbe2_button.clicked
ClickColor2 ==
    /\ Ready
    /\ \E d \in {Farbe(Dialog, "farbe2")} : Commit(d, "Farbe2")
    /\ NoGradient
    /\ UNCHANGED entry

\* the user drags slider i to position v: QSlider.valueChanged
MoveSlider ==
    /\ Ready
    /\ \E i \in 1..3 :
         \E v \in (IF scale[i].maximum = 255 THEN RgbStops ELSE HsvStops) :
           /\ v # scale[i].value
           /\ \E d \in {SliderSetValue(Dialog, i, v)} : Commit(d, "setzeFarbe")
    /\ NoGradient
    /\ UNCHANGED entry

\* the user types text and clicks Set: set_button.clicked
ClickSet ==
    /\ Ready
    /\ \E text \in EntryTexts, iter \in ColourLists,
          obj \in {<<>>, <<4>>, <<-1>>} :
           /\ Len(iter) > 0 => obj = <<>>
           /\ Strip(text) = "" => iter = <<>> /\ obj = <<>>
           /\ entry' = text
           /\ \E d \in {setselection(Dialog, text, iter, obj)} :
                 Commit(d, "setselection")
    /\ NoGradient

\* set_gradient_button.clicked; residuelist is what cmd.iterate appended to
\* stored.residuelist (<<>> when it raised or the selection is empty)
ClickSetGradient ==
    /\ Ready
    /\ \E residuelist \in SeqsUpTo(1..MaxGradResi, 2) :
         /\ selection = "" => residuelist = <<>>
         /\ IF selection = "" \/ Len(residuelist) = 0
            THEN Commit(Dialog, "setgradient") /\ NoGradient
            ELSE \E a \in {GradientArgs(Dialog, residuelist)} :
                   /\ \A x \in {a.hs, a.he, a.ss, a.se, a.vs, a.ve} : x[2] <= MaxHsvDen
                   /\ \E r \in {color_grad(a, Len(residuelist))} :
                        /\ Commit([Dialog EXCEPT !.calls = r.calls], "setgradient")
                        /\ args' = a
                        /\ run' = Locals(r, Len(residuelist))
    /\ UNCHANGED entry

(***************************************************************************)
(* The command color_grad typed at the host's prompt.                      *)
(***************************************************************************)
Command(a, natoms) ==
    /\ Abs(a.maximum - a.minimum) <= MaxResi
    /\ \E r \in {color_grad(a, natoms)} :
        /\ args' = a
        /\ run' = Locals(r, natoms)
        /\ hostCalls' = r.calls
        /\ handler' = "color_grad"
        /\ UNCHANGED <<dvars, events, earlier>>

\* color_grad <selection>, item=, mode=, gradient=, nbins=, minimum=, maximum=
CmdColorGrad ==
    /\ handler = "__init__"
    /\ \E sl \in {"", "objA"}, item \in {"b", "q", "x"},
       mode \in {"hist", "ramp", "HIST", "foo"},
       gradient \in {"bgr", "rainbow", "bwr", "xyz"},
       nb \in {1, 11}, mn \in Resis, mx \in Resis, natoms \in 0..MaxAtoms :
        Command([DefaultArgs EXCEPT !.selection = sl, !.item = item, !.mode = mode,
                                    !.gradient = gradient, !.nbins = nb,
                                    !.minimum = mn, !.maximum = mx], natoms)

\* color_grad <selection>, minimum=, maximum=, hs=, he=, ss=, se=, vs=, ve=
CmdColorGradHSV ==
    /\ handler = "__init__"
    /\ \E mn \in GradMinima, mx \in 0..MaxResi, natoms \in {MaxAtoms},
       hs \in HsvGrid, he \in HsvGrid, ss \in HsvGrid, se \in HsvGrid,
       vs \in ValueStops, ve \in ValueStops :
        Command([DefaultArgs EXCEPT !.selection = "objA",
                                    !.minimum = mn, !.maximum = mx,
                                    !.hs = hs, !.he = he, !.ss = ss, !.se = se,
                                    !.vs = vs, !.ve = ve], natoms)

\* the same command typed once more: same arguments, same selection
CmdRepeat ==
    /\ handler = "color_grad"
    /\ earlier = <<>>
    /\ \E r \in {color_grad(args, run.natoms)} :
        /\ run' = Locals(r, run.natoms)
        /\ hostCalls' = r.calls
        /\ earlier' = <<hostCalls>>
        /\ UNCHANGED <<dvars, events, args, handler>>

(***************************************************************************)
(* Specifications.                                                         *)
(***************************************************************************)
Next ==
    \/ ClickRGB
    \/ ClickHSV
    \/ ClickMono
    \/ ClickGradient
    \/ ClickColor1
    \/ ClickColor2
    \/ MoveSlider
    \/ ClickSet
    \/ ClickSetGradient

Spec == Init /\ [][Next]_vars

NextGrad ==
    \/ CmdColorGrad
    \/ CmdColorGradHSV
    \/ CmdRepeat

SpecGrad == Init /\ [][NextGrad]_vars

(***************************************************************************)
(* Properties.                                                             *)
(***************************************************************************)
SliderValues(d) == <<d.scale[1].value, d.scale[2].value, d.scale[3].value>>

ColorCalls == SelectSeq(hostCalls, LAMBDA c : c.op = "color")
SetColorCalls == SelectSeq(hostCalls, LAMBDA c : c.op = "set_color")

\* a color_grad call that ended without a printed failure and without an exception
Successful == run.called /\ run.printed = "" /\ run.raised = ""

\* C1: for every triple the sliders show in RGB mode, switching to HSV
\* (Scalehsv) and back to RGB (Scalergb) leaves the sliders showing the same
\* triple.
C1_RoundTripExact ==
    colorsystem = "rgb" =>
        SliderValues(Scalergb(Scalehsv(Dialog))) = SliderValues(Dialog)

\* the colour the claim expects for bin j of n: start + (end - start) * j / (n - 1)
\* per channel, converted to RGB
ExpectedBin(j, n) ==
    LET f == Rat(j, n - 1)
        mix(xs, xe) == RAdd(xs, RMul(RSub(xe, xs), f))
    IN  hsv_to_rgb(mix(args.hs, args.he), mix(args.ss, args.se), mix(args.vs, args.ve))

C3_FailureAppliesNothing ==
    (run.called /\ run.printed # "") =>
        /\ run.raised = ""
        /\ ColorCalls = <<>>

C3_Witness ==
    /\ run.called
    /\ run.printed = "no atoms"
    /\ args.mode = "hist" /\ args.gradient = "bgr" /\ args.selection # ""
    /\ ColorCalls = <<>>

\* C4: every color_grad call ends normally: it raises no exception, and it
\* either printed a failure and applied nothing or applied one colour per bin.
C4_NeverRaises ==
    run.called =>
        /\ run.raised = ""
        /\ \/ run.printed # "" /\ ColorCalls = <<>>
           \/ run.printed = "" /\ Len(ColorCalls) = run.nbins

\* C5: in hist mode with the bin count maximum - minimum + 2 the thresholds of
\* the predicates, in bin order, are minimum, minimum + 1, ..., maximum + 1.
C5_Thresholds ==
    (Successful /\ Lower(args.mode) = "hist"
       /\ run.nbins = args.maximum - args.minimum + 2) =>
        /\ Len(run.sel) = run.nbins
        /\ \A k \in 1..Len(run.sel) : run.sel[k].value = RInt(args.minimum + k - 1)

\* C6: in a successful hist-mode run no two different bins have the same
\* threshold.
C6_DisjointBins ==
    (Successful /\ Lower(args.mode) = "hist") =>
        \A j, k \in 1..Len(run.sel) : j # k => run.sel[j].value # run.sel[k].value

C8_NbinsOneBecomesEleven ==
    (run.called /\ args.nbins = 1) => (run.warned /\ run.nbins = 11)

\* C9: the bin count with which the bin colours are computed and applied is
\* at least 2.
C9_AtLeastTwoBins ==
    (run.called /\ run.made) => run.nbins >= 2

\* C10: after Set with a non-empty entry the mode is mono if and only if the
\* colour of the first element of stored.colorlist equals the colour of its
\* last element.
C10_ModeFromEndpoints ==
    (handler = "setselection" /\ Strip(entry) # ""
       /\ colorlist[1] \in DOMAIN HostColour
       /\ colorlist[Len(colorlist)] \in DOMAIN HostColour) =>
        (monograd = "mono" <=>
            HostColour[colorlist[1]] = HostColour[colorlist[Len(colorlist)]])

\* Set on a list of three atoms whose ends have different indices of one
\* colour and whose middle atom has another colour
C10_Witness ==
    /\ handler = "setselection" /\ Strip(entry) # ""
    /\ colorlist = <<4, 13, 7>>
    /\ monograd = "mono"

\* the triple setselection stores for the colour (0.5, 0.5, 0.5)
NeutralGray == IntTriple(Times255(Gray))

\* Set found no CA atom and cmd.get_object_color_index raised
NoColourFound == colorlist = <<0, 0>>

\* cmd.get_color_tuple raised for the first or the last element of the list
LookupFailed ==
    \/ colorlist[1] \notin DOMAIN HostColour
    \/ colorlist[Len(colorlist)] \notin DOMAIN HostColour

\* C11: after Set with a non-empty entry, when the colour list was empty and
\* the object-level lookup failed too, or when the lookup of a colour triple
\* failed, farbe1 and farbe2 are both the neutral gray triple and the mode is
\* mono.
C11_GrayFallback ==
    (handler = "setselection" /\ Strip(entry) # ""
       /\ (NoColourFound \/ LookupFailed)) =>
        (farbe1 = NeutralGray /\ farbe2 = NeutralGray /\ monograd = "mono")

\* the handlers of the dialog that reach the host only through setzeFarbe
RecolouringHandlers ==
    {"Scalergb", "Scalehsv", "Mono", "Grad", "Farbe1", "Farbe2", "setzeFarbe",
     "setselection"}

\* C12: the host calls of a handler that recolours the selection through
\* setzeFarbe come in groups of three: delete of the selection's colour name,
\* set_color of that name, color of the selection with that name.
C12_DeleteDefineApply ==
    handler \in RecolouringHandlers =>
        /\ Len(hostCalls) % 3 = 0
        /\ \A k \in 0..((Len(hostCalls) \div 3) - 1) :
              /\ hostCalls[3 * k + 1].op = "delete"
              /\ hostCalls[3 * k + 2].op = "set_color"
              /\ hostCalls[3 * k + 3].op = "color"
              /\ hostCalls[3 * k + 1].name = selection \o "_color"
              /\ hostCalls[3 * k + 2].name = selection \o "_color"
              /\ hostCalls[3 * k + 3].name = selection \o "_color"
              /\ hostCalls[3 * k + 3].sel = [obj |-> selection]

\* a slider move in HSV mode recoloured the selection once
C12_Witness ==
    /\ handler = "setzeFarbe" /\ colorsystem = "hsv" /\ monograd = "mono"
    /\ Len(hostCalls) = 3
    /\ hostCalls[1].op = "delete" /\ hostCalls[3].op = "color"

InByteRange(rgb) == \A k \in 1..3 : rgb[k] >= 0 /\ rgb[k] <= 255

\* C13: farbe1 and farbe2 are triples of integers in 0..255 in every state.
C13_EndpointsInRange == InByteRange(farbe1) /\ InByteRange(farbe2)

\* C14: every triple a dialog handler passes to cmd.set_color for the
\* selection's colour name has its three channels in [0, 1].
C14_DefinedColoursInUnitRange ==
    handler \in RecolouringHandlers =>
        \A k \in 1..Len(hostCalls) :
            hostCalls[k].op = "set_color" =>
                \A c \in 1..3 : /\ RLeq(RInt(0), hostCalls[k].rgb[c])
                                 /\ RLeq(hostCalls[k].rgb[c], RInt(1))

\* the dialog with the three sliders dragged to (r, g, b); no handler runs
SlidersAt(d, r, g, b) ==
    [d EXCEPT !.scale[1].value = r, !.scale[2].value = g, !.scale[3].value = b]

WithinOne(x, y) == x - y <= 1 /\ y - x <= 1

\* C15: from RGB mode with the sliders at (255, 128, 0), Scalehsv followed
\* by Scalergb leaves every slider within 1 of its value before.
C15_OrangeWithinOne ==
    colorsystem = "rgb" =>
        \A v \in {SliderValues(Scalergb(Scalehsv(SlidersAt(Dialog, 255, 128, 0))))} :
            WithinOne(v[1], 255) /\ WithinOne(v[2], 128) /\ WithinOne(v[3], 0)

\* c is an integer nearest to x
IsNearest(c, x) ==
    /\ RLeq(RSub(x, RInt(c)), Rat(1, 2))
    /\ RLeq(RSub(RInt(c), x), Rat(1, 2))

\* the channels of the colour #rrggbb a colour field shows
ShownRGB(hexcolor) ==
    <<hexcolor \div 65536, (hexcolor \div 256) % 256, hexcolor % 256>>

\* C16: after a slider move in HSV mode with a selection, every channel of
\* the colour shown in the colour field of the edited slot (both fields in
\* mono mode), and stored in that slot in gradient mode, is an integer in
\* 0..255 nearest to 255 times the channel of hsv_to_rgb of the sliders.
C16_RoundedToNearest ==
    (handler = "setzeFarbe" /\ colorsystem = "hsv" /\ selection # "") =>
        \A f \in {hsv_to_rgb(get_value(scale[1]), get_value(scale[2]),
                              get_value(scale[3]))} :
          \A k \in 1..3 :
            /\ (monograd = "mono" \/ farbe12 = "farbe1") =>
                  IsNearest(ShownRGB(colorfield1)[k], RMul(RInt(255), f[k]))
            /\ (monograd = "mono" \/ farbe12 = "farbe2") =>
                  IsNearest(ShownRGB(colorfield2)[k], RMul(RInt(255), f[k]))
            /\ (monograd = "grad" /\ farbe12 = "farbe1") =>
                  IsNearest(farbe1[k], RMul(RInt(255), f[k]))
            /\ (monograd = "grad" /\ farbe12 = "farbe2") =>
                  IsNearest(farbe2[k], RMul(RInt(255), f[k]))

\* C17: with a selection in gradient mode, the colour the sliders show, read
\* in the current colour system and converted to RGB as setzeFarbe does, is
\* the stored colour of the slot being edited.
C17_SlidersShowEditedSlot ==
    (selection # "" /\ monograd = "grad") =>
        \A c \in {SliderRGB(Dialog)} :
            c.rgb = (IF farbe12 = "farbe1" THEN farbe1 ELSE farbe2)

\* C19: a click on RGB or HSV with a selection makes no host call and leaves
\* farbe1 and farbe2 as they were.
C19_SwitchOnlyDisplays ==
    [][(handler' \in {"Scalergb", "Scalehsv"} /\ selection # "") =>
          (hostCalls' = <<>> /\ farbe1' = farbe1 /\ farbe2' = farbe2)]_vars

\* C20: in gradient mode a click on Color 1 or Color 2 leaves farbe1 and
\* farbe2 as they were and ends with the sliders showing the stored colour of
\* the slot clicked.
C20_SlotSwitchKeepsEndpoints ==
    [][(handler' \in {"Farbe1", "Farbe2"} /\ monograd = "grad") =>
          /\ farbe1' = farbe1
          /\ farbe2' = farbe2
          /\ \A c \in {SliderRGB(Dialog)'} :
                c.rgb = (IF farbe12' = "farbe1" THEN farbe1' ELSE farbe2')]_vars

\* the colour definitions and colour assignments among host calls
GradientCalls(calls) == SelectSeq(calls, LAMBDA c : c.op \in {"set_color", "color"})

C21_SetOnlyReads ==
    handler = "setselection" =>
        \A k \in 1..Len(hostCalls) :
            hostCalls[k].op \notin {"delete", "set_color", "color"}

\* C22: in a successful hist-mode run every predicate handed to cmd.color
\* restricts the selection the caller passed.
C22_PredicatesOnCallersSelection ==
    (Successful /\ Lower(args.mode) = "hist") =>
        \A k \in 1..Len(ColorCalls) : ColorCalls[k].sel.obj = args.selection

\* C23: in a successful hist-mode run with the bin count maximum - minimum + 2
\* and minimum <= maximum, every integer from minimum to maximum is the
\* threshold of the predicate of some cmd.color call.
C23_EveryResidueHasABin ==
    (Successful /\ Lower(args.mode) = "hist"
       /\ run.nbins = args.maximum - args.minimum + 2
       /\ args.minimum <= args.maximum) =>
        \A v \in args.minimum..args.maximum :
            \E k \in 1..Len(ColorCalls) : ColorCalls[k].sel.value = RInt(v)

\* C24: with no selection, a slider move, Set Gradient, and Set with an
\* empty or blank entry make no host call and leave selection, monograd,
\* farbe1 and farbe2 as they were.
C24_NoSelectionNoEffect ==
    [][(selection = ""
          /\ \/ handler' \in {"setzeFarbe", "setgradient"}
             \/ handler' = "setselection" /\ Strip(entry') = "") =>
          /\ hostCalls' = <<>>
          /\ selection' = selection
          /\ monograd' = monograd
          /\ farbe1' = farbe1
          /\ farbe2' = farbe2]_vars

\* a slider was dragged in gradient mode while no selection was active
C24_Witness ==
    /\ selection = "" /\ handler = "setzeFarbe"
    /\ monograd = "grad"
    /\ scale[2].value = 102
    /\ hostCalls = <<>>
    /\ farbe1 = <<128, 128, 128>>

====
